---- MODULE Spec2Model ----
(***************************************************************************)
(* Conversation session state machine of the Databricks RAG chat           *)
(* application (src/app.py).  The Streamlit script is re-executed from top *)
(* to bottom on every widget interaction (a render pass); st.session_state *)
(* persists between passes.  One action models one pass, from the widget   *)
(* that fired up to the point where the script ends, calls st.rerun(),     *)
(* calls st.stop(), or blocks in query_endpoint.                           *)
(***************************************************************************)
EXTENDS Integers, Sequences, FiniteSets

\* ------------------------------------------------------------------ bounds
\* Prompts are accepted by the model only while the log has room for the
\* user entry and its reply.
MaxMessages == 7
\* Failed query_endpoint calls the model lets happen between two resets.
MaxFailures == 1

\* ------------------------------------------------------- program constants
\* Collapse threshold of the history display (3 Q&A pairs).
HistoryWindow == 6
\* Generation budget passed to query_endpoint.
max_tokens == 400

\* get_suggested_questions(): the predefined questions (the first two of
\* the four are enough to tell one staged question from another).
get_suggested_questions ==
    << "What is Lakeflow and how does it work?",
       "How can I ingest data into Databricks using Lakeflow?" >>

Questions == { get_suggested_questions[i] : i \in DOMAIN get_suggested_questions }

\* Values st.chat_input may hand to the script when the user submits.
\* (nothing but whitespace-free text: empty, or a question typed by hand).
Texts == { "", get_suggested_questions[1] }

\* What query_endpoint may do: return a bare string, return a dict with or
\* without a "content" field, return an object that is neither (None), or
\* raise.
Responses ==
    { [kind |-> "str",   has_content |-> FALSE, content |-> "hello"],
      [kind |-> "dict",  has_content |-> TRUE,  content |-> "hello"],
      [kind |-> "dict",  has_content |-> FALSE, content |-> ""],
      [kind |-> "none",  has_content |-> FALSE, content |-> ""],
      [kind |-> "raise", has_content |-> FALSE, content |-> ""] }

\* Request headers seen by get_user_info: the email header present, the
\* header absent, or the header lookup raising.
HeaderCases == { "present", "absent", "raises" }

\* os.getenv('SERVING_ENDPOINT'): unset/empty, or an endpoint name.
EndpointCases == { "", "rag-endpoint" }

NoValue == << >>
Some(v) == << v >>

VARIABLES
    SERVING_ENDPOINT,   \* process environment
    headers,            \* request headers case of the session's connection
    session_state,      \* st.session_state
    pc,                 \* "run" | "idle" | "calling" | "stopped"
    widgets,            \* widgets emitted by the current / last pass
    view,               \* chat area rendered by the current / last pass
    user_email,         \* user_info['user_email'] of the current / last pass
    call,               \* arguments of the pass's query_endpoint call
    pass,               \* what the current / last pass did
    hist                \* history since the last reset and last staging

vars == << SERVING_ENDPOINT, headers, session_state, pc, widgets, view,
           user_email, call, pass, hist >>

messages == session_state.messages
selected_question == session_state.selected_question
show_all_messages == session_state.show_all_messages
session_keys == session_state.keys

\* ---------------------------------------------------------- pure helpers
Last(s) == s[Len(s)]

IsPrefix(s, t) == Len(s) <= Len(t) /\ SubSeq(t, 1, Len(s)) = s

IsSuffix(s, t) == Len(s) <= Len(t) /\ SubSeq(t, Len(t) - Len(s) + 1, Len(t)) = s

Roles(s) == [ i \in DOMAIN s |-> s[i].role ]

CountRole(s, r) == Cardinality({ i \in DOMAIN s : s[i].role = r })

\* Python truthiness of the value returned by handle_question_selection.
Truthy(p) == p # NoValue /\ p[1] # ""

\* Variant: the script goes on without an endpoint name.
validate_environment_unchecked(env) == TRUE

\* validate_environment(): the endpoint name, or st.stop() when it is unset.
validate_environment(env) == env # ""

\* Variant: a lookup that raises leaves the email empty.
get_user_info_unguarded(h) ==
    IF h = "present" THEN "user@example.com"
    ELSE IF h = "absent" THEN "Not available" ELSE ""

\* get_user_info(): headers.get("X-Forwarded-Email", "Not available"),
\* and the same sentinel when the lookup raises.
get_user_info(h) ==
    IF h = "present" THEN "user@example.com" ELSE "Not available"

\* st.session_state of a fresh browser session: no key is set.
EmptySession ==
    [ keys |-> {}, messages |-> << >>, selected_question |-> "",
      show_all_messages |-> FALSE ]

\* Variant: messages is assigned the empty list in every pass.
initialize_session_state_overwrites(s) ==
    [ s EXCEPT
        !.keys = @ \cup (IF "visibility" \in s.keys THEN {}
                         ELSE { "visibility", "disabled" })
                   \cup { "messages" },
        !.messages = << >> ]

\* initialize_session_state(): create the keys that are absent.
initialize_session_state(s) ==
    [ s EXCEPT
        !.keys = @ \cup (IF "visibility" \in s.keys THEN {}
                         ELSE { "visibility", "disabled" })
                   \cup { "messages" },
        !.messages = IF "messages" \in s.keys THEN @ ELSE << >> ]

\* --------------------------------------------------------- Question Stager
\* Variant: a click on a suggested question sends it at once.
stage_question_sends(s, question) ==
    [ s EXCEPT !.messages = Append(@, [role |-> "user", content |-> question]) ]

\* Variant: a question that is already staged is kept.
stage_question_keeps_first(s, question) ==
    IF "selected_question" \in s.keys THEN s
    ELSE [ s EXCEPT !.keys = @ \cup { "selected_question" },
                    !.selected_question = question ]

\* render_main_content, suggested-question button:
\*   st.session_state.selected_question = question
stage_question(s, question) ==
    [ s EXCEPT !.keys = @ \cup { "selected_question" },
               !.selected_question = question ]

\* Variant: the staged question is not deleted.
del_selected_question_noop(s) == s

\* del st.session_state.selected_question
del_selected_question(s) ==
    [ s EXCEPT !.keys = @ \ { "selected_question" },
               !.selected_question = "" ]

\* Variant: "Clear selection" hands the staged question on as the prompt.
handle_question_selection_clear_sends(s, click, text) ==
    IF "selected_question" \in s.keys
    THEN IF click \in { "use_question", "clear_question" }
         THEN [ prompt |-> Some(s.selected_question),
                session |-> [ s EXCEPT !.keys = @ \ { "selected_question" },
                                       !.selected_question = "" ],
                rerun |-> FALSE,
                source |-> "staged",
                rendered |-> { "use_question" } ]
         ELSE [ prompt |-> NoValue,
                session |-> s,
                rerun |-> FALSE,
                source |-> "none",
                rendered |-> { "use_question", "clear_question" } ]
    ELSE [ prompt |-> IF click = "chat_input" THEN Some(text) ELSE NoValue,
           session |-> s,
           rerun |-> FALSE,
           source |-> IF click = "chat_input" THEN "typed" ELSE "none",
           rendered |-> { "chat_input" } ]

\* Variant: the chat input is rendered and read whether or not a question
\* is staged.
handle_question_selection_input_always(s, click, text) ==
    IF "selected_question" \in s.keys /\ click = "use_question"
    THEN [ prompt |-> Some(s.selected_question),
           session |-> [ s EXCEPT !.keys = @ \ { "selected_question" },
                                  !.selected_question = "" ],
           rerun |-> FALSE,
           source |-> "staged",
           rendered |-> { "use_question" } ]
    ELSE IF "selected_question" \in s.keys /\ click = "clear_question"
    THEN [ prompt |-> NoValue,
           session |-> [ s EXCEPT !.keys = @ \ { "selected_question" },
                                  !.selected_question = "" ],
           rerun |-> TRUE,
           source |-> "none",
           rendered |-> { "use_question", "clear_question" } ]
    ELSE [ prompt |-> IF click = "chat_input" THEN Some(text) ELSE NoValue,
           session |-> s,
           rerun |-> FALSE,
           source |-> IF click = "chat_input" THEN "typed" ELSE "none",
           rendered |-> { "chat_input" } \cup
                        IF "selected_question" \in s.keys
                        THEN { "use_question", "clear_question" } ELSE {} ]

\* Variant: a staged question is handed on in every pass and stays staged.
handle_question_selection_resends(s, click, text) ==
    IF "selected_question" \in s.keys
    THEN [ prompt |-> Some(s.selected_question),
           session |-> s,
           rerun |-> FALSE,
           source |-> "staged",
           rendered |-> { "use_question", "clear_question" } ]
    ELSE [ prompt |-> IF click = "chat_input" THEN Some(text) ELSE NoValue,
           session |-> s,
           rerun |-> FALSE,
           source |-> IF click = "chat_input" THEN "typed" ELSE "none",
           rendered |-> { "chat_input" } ]

\* handle_question_selection(): the prompt of the pass (NoValue for None),
\* the session afterwards, whether st.rerun() was called, and the widgets
\* the function emitted.  click is the widget whose interaction started the
\* pass, text the value submitted through st.chat_input.
handle_question_selection(s, click, text) ==
    IF "selected_question" \in s.keys
    THEN IF click = "use_question"
         THEN [ prompt |-> Some(s.selected_question),
                session |-> del_selected_question(s),
                rerun |-> FALSE,
                source |-> "staged",
                rendered |-> { "use_question" } ]
         ELSE IF click = "clear_question"
         THEN [ prompt |-> NoValue,
                session |-> del_selected_question(s),
                rerun |-> TRUE,
                source |-> "none",
                rendered |-> { "use_question", "clear_question" } ]
         ELSE [ prompt |-> NoValue,
                session |-> s,
                rerun |-> FALSE,
                source |-> "none",
                rendered |-> { "use_question", "clear_question" } ]
    ELSE [ prompt |-> IF click = "chat_input" THEN Some(text) ELSE NoValue,
           session |-> s,
           rerun |-> FALSE,
           source |-> IF click = "chat_input" THEN "typed" ELSE "none",
           rendered |-> { "chat_input" } ]

\* --------------------------------------------------- Conversation Controller
\* Variant: the user entry is recorded twice.
append_user_twice(s, prompt) ==
    [ s EXCEPT !.messages =
        Append(Append(@, [role |-> "user", content |-> prompt]),
               [role |-> "user", content |-> prompt]) ]

\* Variant: the user entry is not recorded.
append_user_skipped(s, prompt) == s

\* Variant: a new prompt switches the display back to the recent view.
append_user_collapses(s, prompt) ==
    [ s EXCEPT !.messages = Append(@, [role |-> "user", content |-> prompt]),
               !.keys = @ \cup { "show_all_messages" },
               !.show_all_messages = FALSE ]

\* st.session_state.messages.append({"role": "user", "content": prompt})
append_user(s, prompt) ==
    [ s EXCEPT !.messages = Append(@, [role |-> "user", content |-> prompt]) ]

\* Variant: only the new user entry is sent.
query_arguments_last_only(env, s) ==
    [ endpoint_name |-> env,
      messages |-> << s.messages[Len(s.messages)] >>,
      max_tokens |-> max_tokens ]

\* query_endpoint(endpoint_name=serving_endpoint,
\*                messages=st.session_state.messages, max_tokens=400)
query_arguments(env, s) ==
    [ endpoint_name |-> env, messages |-> s.messages, max_tokens |-> max_tokens ]

\* query_endpoint raised, or response.get raised because the response is
\* neither a string nor a dict: control reaches the except branch.
call_fails(response) == response.kind \in { "raise", "none" }

\* Variant: response["content"] is read without a default.
assistant_response_no_default(response) ==
    IF response.kind = "str" THEN response.content
    ELSE IF response.has_content THEN response.content ELSE "None"

\* response if isinstance(response, str) else response.get("content", "")
assistant_response(response) ==
    IF response.kind = "str" THEN response.content
    ELSE IF response.has_content THEN response.content ELSE ""

\* Variant: the failed prompt is staged again for a retry.
handle_error_restages(s) ==
    [ s EXCEPT !.keys = @ \cup { "selected_question" },
               !.selected_question = s.messages[Len(s.messages)].content ]

\* Variant: the error text is recorded as an assistant entry.
handle_error_appends(s) ==
    [ s EXCEPT !.messages = Append(@, [role |-> "assistant", content |-> "error"]) ]

\* Variant: the user entry of the failed prompt is taken back.
handle_error_rolls_back(s) ==
    [ s EXCEPT !.messages = SubSeq(@, 1, Len(@) - 1) ]

\* except Exception: the error is logged and shown with st.error; the
\* session is left as it is.
handle_error(s) == s

\* Variant: the reply is recorded with the user role.
append_assistant_as_user(s, text) ==
    [ s EXCEPT !.messages = Append(@, [role |-> "user", content |-> text]) ]

\* Variant: the reply replaces the last entry instead of following it.
append_assistant_overwrites(s, text) ==
    [ s EXCEPT !.messages[Len(s.messages)] =
                   [role |-> "assistant", content |-> text] ]

\* Variant: the reply is recorded twice.
append_assistant_twice(s, text) ==
    [ s EXCEPT !.messages =
        Append(Append(@, [role |-> "assistant", content |-> text]),
               [role |-> "assistant", content |-> text]) ]

\* st.session_state.messages.append({"role": "assistant", "content": ...})
append_assistant(s, text) ==
    [ s EXCEPT !.messages = Append(@, [role |-> "assistant", content |-> text]) ]

\* Variant: Reset leaves the log as it is.
reset_messages_noop(s) == s

\* Variant: Reset also drops the staged question.
reset_messages_clears_staged(s) ==
    [ s EXCEPT !.messages = << >>,
               !.keys = @ \ { "selected_question" },
               !.selected_question = "" ]

\* Reset button: st.session_state.messages = []
reset_messages(s) == [ s EXCEPT !.messages = << >> ]

\* ---------------------------------------------------------- History Presenter
\* st.session_state.get('show_all_messages', False)
show_all(s) ==
    IF "show_all_messages" \in s.keys THEN s.show_all_messages ELSE FALSE

\* Variant: the controls are offered from 6 messages on.
toggle_widgets_from_six(s) ==
    IF Len(s.messages) >= HistoryWindow
    THEN IF show_all(s) THEN { "collapse_messages" } ELSE { "expand_messages" }
    ELSE {}

\* The collapse / expand button offered by the pass.
toggle_widgets(s) ==
    IF Len(s.messages) > 0 /\ Len(s.messages) > HistoryWindow
    THEN IF show_all(s) THEN { "collapse_messages" } ELSE { "expand_messages" }
    ELSE {}

\* st.session_state.show_all_messages = False / True
set_show_all(s, value) ==
    [ s EXCEPT !.keys = @ \cup { "show_all_messages" },
               !.show_all_messages = value ]

\* Variant: the first six entries instead of the last six.
latest_from_start(msgs) ==
    SubSeq(msgs, 1, IF Len(msgs) > HistoryWindow THEN HistoryWindow ELSE Len(msgs))

\* st.session_state.messages[-6:]
latest(msgs) ==
    SubSeq(msgs, IF Len(msgs) > HistoryWindow
                 THEN Len(msgs) - HistoryWindow + 1 ELSE 1, Len(msgs))

\* Variant: the window is applied whatever the toggle says.
messages_to_show_always_windowed(s) ==
    IF Len(s.messages) <= HistoryWindow
    THEN s.messages
    ELSE SubSeq(s.messages, Len(s.messages) - HistoryWindow + 1, Len(s.messages))

\* messages_to_show
messages_to_show(s) ==
    IF show_all(s) \/ Len(s.messages) <= HistoryWindow
    THEN s.messages
    ELSE latest(s.messages)

\* The st.info banner of the display: the number of hidden earlier
\* messages, or NoValue when no banner is shown.
banner(s) ==
    IF show_all(s) \/ Len(s.messages) <= HistoryWindow
    THEN IF ~show_all(s) /\ Len(s.messages) > HistoryWindow
         THEN Some(Len(s.messages) - HistoryWindow)
         ELSE NoValue
    ELSE Some(Len(s.messages) - HistoryWindow)

\* Variant: a trailing user entry that has no reply is left out of the view.
render_history_drops_unanswered(s, error) ==
    LET shown == messages_to_show(s)
        kept == IF Len(shown) > 0 /\ shown[Len(shown)].role = "user"
                THEN SubSeq(shown, 1, Len(shown) - 1) ELSE shown
    IN  IF Len(s.messages) > 0
        THEN [ shown |-> kept, banner |-> banner(s),
               placeholder |-> FALSE, error |-> error ]
        ELSE [ shown |-> << >>, banner |-> NoValue,
               placeholder |-> TRUE, error |-> error ]

\* The chat area produced by the display part of render_chat_interface
\* (the placeholder when there are no messages); error tells whether the
\* pass also showed st.error.
render_history(s, error) ==
    IF Len(s.messages) > 0
    THEN [ shown |-> messages_to_show(s), banner |-> banner(s),
           placeholder |-> FALSE, error |-> error ]
    ELSE [ shown |-> << >>, banner |-> NoValue,
           placeholder |-> TRUE, error |-> error ]

\* Variant: the offered button counts as clicked in every pass.
display_reruns_when_offered(s, click) ==
    IF toggle_widgets(s) # {}
    THEN [ session |-> set_show_all(s, ~show_all(s)),
           rerun |-> TRUE,
           rendered |-> toggle_widgets(s) ]
    ELSE [ session |-> s,
           rerun |-> FALSE,
           rendered |-> toggle_widgets(s) ]

\* Collapse / expand controls of render_chat_interface: a click on the
\* offered button sets show_all_messages and calls st.rerun().
display(s, click) ==
    IF click \in toggle_widgets(s)
    THEN [ session |-> set_show_all(s, click = "expand_messages"),
           rerun |-> TRUE,
           rendered |-> toggle_widgets(s) ]
    ELSE [ session |-> s,
           rerun |-> FALSE,
           rendered |-> toggle_widgets(s) ]

\* ------------------------------------------------- Render Pass Orchestrator
\* The result of running the script for one widget interaction:
\*   session  st.session_state when the script stops running
\*   end      "rerun" (st.rerun), "call" (blocked in query_endpoint),
\*            "done" (script ran to its end), "stop" (st.stop)
\*   op       the operation the pass performed
\*   prompt   the value returned by handle_question_selection
\*   rendered the widgets emitted so far

\* Variant: an empty prompt is processed like any other.
render_chat_interface_sends_empty(s, click, text) ==
    LET h == handle_question_selection(s, click, text) IN
    IF h.rerun
    THEN [ session |-> h.session, end |-> "rerun", op |-> "discard",
           prompt |-> h.prompt, source |-> h.source, rendered |-> h.rendered ]
    ELSE IF h.prompt # NoValue
    THEN [ session |-> append_user(h.session, h.prompt[1]), end |-> "call",
           op |-> IF h.source = "staged" THEN "confirm" ELSE "typed",
           prompt |-> h.prompt, source |-> h.source, rendered |-> h.rendered ]
    ELSE LET d == display(h.session, click) IN
         [ session |-> d.session,
           end |-> IF d.rerun THEN "rerun" ELSE "done",
           op |-> IF d.rerun THEN "toggle" ELSE "none",
           prompt |-> h.prompt, source |-> h.source,
           rendered |-> h.rendered \cup d.rendered ]

\* render_chat_interface() up to the query_endpoint call.
render_chat_interface(s, click, text) ==
    LET h == handle_question_selection(s, click, text) IN
    IF h.rerun
    THEN [ session |-> h.session, end |-> "rerun", op |-> "discard",
           prompt |-> h.prompt, source |-> h.source, rendered |-> h.rendered ]
    ELSE IF Truthy(h.prompt)
    THEN [ session |-> append_user(h.session, h.prompt[1]), end |-> "call",
           op |-> IF h.source = "staged" THEN "confirm" ELSE "typed",
           prompt |-> h.prompt, source |-> h.source, rendered |-> h.rendered ]
    ELSE LET d == display(h.session, click) IN
         [ session |-> d.session,
           end |-> IF d.rerun THEN "rerun" ELSE "done",
           op |-> IF d.rerun THEN "toggle" ELSE "none",
           prompt |-> h.prompt, source |-> h.source,
           rendered |-> h.rendered \cup d.rendered ]

\* render_main_content(): suggested-question buttons, the Reset button,
\* then the chat interface.
render_main_content(s, click, question, text) ==
    IF click = "main_question"
    THEN [ session |-> stage_question(s, question), end |-> "rerun",
           op |-> "stage", prompt |-> NoValue, source |-> "none",
           rendered |-> { "main_question" } ]
    ELSE IF click = "reset"
    THEN [ session |-> reset_messages(s), end |-> "rerun",
           op |-> "reset", prompt |-> NoValue, source |-> "none",
           rendered |-> { "main_question", "reset" } ]
    ELSE LET r == render_chat_interface(s, click, text) IN
         [ r EXCEPT !.rendered = @ \cup { "main_question", "reset" } ]

\* main(): validate_environment, get_user_info, initialize_session_state,
\* render_main_content.
main(env, s, click, question, text) ==
    IF ~validate_environment(env)
    THEN [ session |-> s, end |-> "stop", op |-> "stop",
           prompt |-> NoValue, source |-> "none", rendered |-> {} ]
    ELSE render_main_content(initialize_session_state(s), click, question, text)

\* The page after st.stop(): only the configuration error is shown.
StoppedView ==
    [ shown |-> << >>, banner |-> NoValue, placeholder |-> FALSE,
      error |-> TRUE ]

\* Nothing of the chat area has been rendered (yet) by the pass.
NoView ==
    [ shown |-> << >>, banner |-> NoValue, placeholder |-> FALSE,
      error |-> FALSE ]

NoCall == [ endpoint_name |-> "", messages |-> << >>, max_tokens |-> 0 ]

\* History since the last reset: non-empty prompts submitted, calls of
\* query_endpoint that were made, succeeded and failed, the number of the
\* first call that failed (0: none), the outcome of the latest call; the
\* session as it was before the latest staging (kept while the staged
\* question is pending or has just been discarded); and the suggested
\* question clicked last, while it waits for "Use this question" or
\* "Clear selection" ("": none; it outlives a reset).
ZeroHist ==
    [ prompts |-> 0, calls |-> 0, successes |-> 0, failures |-> 0,
      first_failure |-> 0, last_call |-> "none", pre_stage |-> NoValue,
      last_staged |-> "" ]

\* ------------------------------------------------------------------- Init
Init ==
    /\ SERVING_ENDPOINT \in EndpointCases
    /\ headers \in HeaderCases
    /\ session_state = EmptySession
    /\ pc = "run"
    /\ widgets = {}
    /\ view = NoView
    /\ user_email = ""
    /\ call = NoCall
    /\ pass = [ click |-> "none", arg |-> "", op |-> "none", prompt |-> NoValue,
                source |-> "none", appended |-> 0, calls |-> 0,
                outcome |-> "none", response |-> NoValue, end |-> "none" ]
    /\ hist = ZeroHist

\* ----------------------------------------------------------------- passes
\* One run of the script, started by an interaction with widget click
\* ("none": page load or st.rerun()).
RunScript(click, question, text) ==
    LET r == main(SERVING_ENDPOINT, session_state, click, question, text)
        calling == r.end = "call"
    IN  /\ calling => Len(r.session.messages) < MaxMessages
        /\ user_email' = IF r.end = "stop" THEN user_email
                         ELSE get_user_info(headers)
        /\ session_state' = r.session
        /\ pc' = CASE r.end = "stop"  -> "stopped"
                   [] r.end = "rerun" -> "run"
                   [] r.end = "call"  -> "calling"
                   [] r.end = "done"  -> "idle"
        /\ widgets' = r.rendered
        /\ view' = CASE r.end = "done" -> render_history(r.session, FALSE)
                     [] r.end = "stop" -> StoppedView
                     [] OTHER -> NoView
        /\ call' = IF calling
                   THEN query_arguments(SERVING_ENDPOINT, r.session)
                   ELSE NoCall
        /\ pass' = [ click |-> click,
                     arg |-> IF click = "main_question" THEN question ELSE text,
                     op |-> r.op, prompt |-> r.prompt,
                     source |-> r.source,
                     appended |-> IF calling THEN 1 ELSE 0,
                     calls |-> IF calling THEN 1 ELSE 0,
                     outcome |-> IF calling THEN "pending" ELSE "none",
                     response |-> NoValue,
                     end |-> r.end ]
        /\ hist' =
             IF r.op = "reset"
             THEN [ ZeroHist EXCEPT !.last_staged = hist.last_staged ]
             ELSE [ prompts |-> hist.prompts + (IF calling THEN 1 ELSE 0),
                    calls |-> hist.calls + (IF calling THEN 1 ELSE 0),
                    successes |-> hist.successes,
                    failures |-> hist.failures,
                    first_failure |-> hist.first_failure,
                    last_call |-> IF calling THEN "pending" ELSE hist.last_call,
                    pre_stage |->
                        IF click = "main_question"
                        THEN Some(initialize_session_state(session_state))
                        ELSE IF click = "clear_question"
                                \/ (click = "none" /\ pass.click = "main_question")
                        THEN hist.pre_stage
                        ELSE NoValue,
                    last_staged |->
                        IF click = "main_question" THEN question
                        ELSE IF click \in { "use_question", "clear_question" }
                        THEN ""
                        ELSE hist.last_staged ]
        /\ UNCHANGED << SERVING_ENDPOINT, headers >>

\* Page load, or the pass started by st.rerun().
RunPass ==
    /\ pc = "run"
    /\ RunScript("none", "", "")

\* The user clicks one of the suggested questions.
QuestionClicked ==
    /\ pc = "idle"
    /\ "main_question" \in widgets
    /\ \E question \in Questions : RunScript("main_question", question, "")

\* The user clicks Reset.
ResetClicked ==
    /\ pc = "idle"
    /\ "reset" \in widgets
    /\ RunScript("reset", "", "")

\* The user clicks "Use this question".
UseQuestionClicked ==
    /\ pc = "idle"
    /\ "use_question" \in widgets
    /\ RunScript("use_question", "", "")

\* The user clicks "Clear selection".
ClearSelectionClicked ==
    /\ pc = "idle"
    /\ "clear_question" \in widgets
    /\ RunScript("clear_question", "", "")

\* The user submits the chat input.
ChatInputSubmitted ==
    /\ pc = "idle"
    /\ "chat_input" \in widgets
    /\ \E text \in Texts : RunScript("chat_input", "", text)

\* The user clicks "Show All History".
ExpandClicked ==
    /\ pc = "idle"
    /\ "expand_messages" \in widgets
    /\ RunScript("expand_messages", "", "")

\* The user clicks "Show Recent Only".
CollapseClicked ==
    /\ pc = "idle"
    /\ "collapse_messages" \in widgets
    /\ RunScript("collapse_messages", "", "")

\* query_endpoint returns or raises; render_chat_interface continues: on
\* success the assistant entry is appended and st.rerun() is called, on
\* failure st.error is shown and the history is displayed in the same pass.
EndpointReturns ==
    /\ pc = "calling"
    /\ \E response \in Responses :
         /\ call_fails(response) => hist.failures < MaxFailures
         /\ IF call_fails(response)
            THEN LET d == display(handle_error(session_state), pass.click) IN
                 /\ session_state' = d.session
                 /\ pc' = IF d.rerun THEN "run" ELSE "idle"
                 /\ widgets' = widgets \cup d.rendered
                 /\ view' = IF d.rerun THEN [ NoView EXCEPT !.error = TRUE ]
                            ELSE render_history(d.session, TRUE)
                 /\ pass' = [ pass EXCEPT
                                !.outcome = "failure",
                                !.response = Some(response),
                                !.end = IF d.rerun THEN "rerun" ELSE "done" ]
                 /\ hist' = [ hist EXCEPT
                                !.failures = @ + 1,
                                !.first_failure =
                                    IF @ = 0 THEN hist.calls ELSE @,
                                !.last_call = "failure",
                                !.pre_stage = NoValue ]
            ELSE /\ session_state' =
                       append_assistant(session_state,
                                        assistant_response(response))
                 /\ pc' = "run"
                 /\ widgets' = widgets
                 /\ view' = view
                 /\ pass' = [ pass EXCEPT !.outcome = "success",
                                          !.response = Some(response),
                                          !.end = "rerun" ]
                 /\ hist' = [ hist EXCEPT !.successes = @ + 1,
                                          !.last_call = "success",
                                          !.pre_stage = NoValue ]
    /\ UNCHANGED << SERVING_ENDPOINT, headers, user_email, call >>

Next ==
    \/ RunPass
    \/ QuestionClicked
    \/ ResetClicked
    \/ UseQuestionClicked
    \/ ClearSelectionClicked
    \/ ChatInputSubmitted
    \/ ExpandClicked
    \/ CollapseClicked
    \/ EndpointReturns

Spec == Init /\ [][Next]_vars

\* Streamlit runs the pass requested by st.rerun(), or by the page load,
\* without waiting for the user, and query_endpoint returns or raises.
LiveSpec == Spec /\ WF_vars(RunPass \/ EndpointReturns)

\* ------------------------------------------------------------------ types
TypeOK ==
    /\ pc \in { "run", "idle", "calling", "stopped" }
    /\ session_state.keys \subseteq
         { "visibility", "disabled", "messages", "selected_question",
           "show_all_messages" }
    /\ Len(messages) <= MaxMessages
    /\ \A i \in DOMAIN messages : messages[i].role \in { "user", "assistant" }

\* ================================================================= claims
Staged == "selected_question" \in session_state.keys

Alternating(s) ==
    \A i \in DOMAIN s :
        s[i].role = IF i % 2 = 1 THEN "user" ELSE "assistant"

\* C1: since the log was last empty (start or reset), after N prompts whose
\* remote calls all succeeded, messages has exactly 2N entries alternating
\* user, assistant, ... starting with user.
C1_AllSucceed ==
    (hist.failures = 0 /\ pc # "calling")
        => /\ Len(messages) = 2 * hist.prompts
           /\ hist.successes = hist.prompts
           /\ Alternating(messages)

C1_Witness ==
    /\ pc = "idle"
    /\ hist.failures = 0
    /\ hist.prompts = 3
    /\ Len(messages) = 6

\* C2: if the first k-1 remote calls succeed and the k-th fails, then after
\* that pass messages has exactly 2(k-1)+1 entries, the last being the user
\* entry of the failed prompt; and as long as no later call has succeeded,
\* every entry from position 2(k-1)+1 on is a user entry.
C2_FailedCall ==
    LET k == hist.first_failure IN
    (k > 0 /\ hist.successes = k - 1)
        => /\ Len(messages) >= 2 * (k - 1) + 1
           /\ \A i \in DOMAIN messages :
                 i > 2 * (k - 1) => messages[i].role = "user"
           /\ (hist.calls = k /\ pc # "calling")
                 => Len(messages) = 2 * (k - 1) + 1
           /\ (pass.outcome = "failure")
                 => Last(messages) = [role |-> "user", content |-> pass.prompt[1]]

C2_Witness ==
    /\ pc = "idle"
    /\ pass.outcome = "failure"
    /\ hist.first_failure = 2
    /\ hist.calls = 2
    /\ Len(messages) = 3

\* C3: in every reachable state every assistant entry of messages is
\* immediately preceded by a user entry.
C3_ConsistentShape ==
    \A i \in DOMAIN messages :
        messages[i].role = "assistant"
            => i > 1 /\ messages[i - 1].role = "user"

C3_Witness ==
    /\ hist.failures > 0
    /\ hist.successes > 0
    /\ Len(messages) >= 5
    /\ Last(messages).role = "assistant"
    /\ \E i \in 1 .. Len(messages) - 1 :
          messages[i].role = "user" /\ messages[i + 1].role = "user"

\* C4: messages is append-only: in every step the old value is a prefix of
\* the new one, or the step is the Reset pass and the new value is empty.
C4_AppendOnly ==
    [][ \/ IsPrefix(messages, messages')
        \/ (pc = "idle" /\ pass'.click = "reset" /\ messages' = << >>) ]_vars

C4_Witness ==
    /\ pass.outcome = "success"
    /\ Len(messages) >= 4
    /\ hist.failures > 0

\* C5 (as stated): the Reset pass leaves messages empty and the show-all
\* toggle false.
C5_ResetRestoresToggle ==
    (pass.click = "reset" /\ pc = "run")
        => messages = << >> /\ show_all(session_state) = FALSE

\* C5 (amended): the Reset pass leaves messages empty and the show-all
\* toggle as it was, whatever the history and the toggle were.
C5_ResetClearsMessages ==
    [][ (pc = "idle" /\ pass'.click = "reset")
            => /\ messages' = << >>
               /\ show_all(session_state') = show_all(session_state)
               /\ pc' = "run" ]_vars

C5_Witness ==
    /\ pass.click = "reset"
    /\ pc = "run"
    /\ messages = << >>
    /\ show_all(session_state) = TRUE

\* C6: windowed case of the history display: when a pass has rendered the
\* history with more than 6 messages and the toggle off, the rendered
\* messages are exactly the last 6 entries in order and the banner reports
\* len(messages) - 6 hidden messages.
C6_Windowed ==
    (pc = "idle" /\ Len(messages) > 6 /\ ~show_all(session_state))
        => /\ Len(view.shown) = 6
           /\ \A i \in 1 .. 6 :
                 view.shown[i] = messages[Len(messages) - 6 + i]
           /\ view.banner = Some(Len(messages) - 6)

C6_Witness ==
    /\ pc = "idle"
    /\ Len(messages) = 7
    /\ ~show_all(session_state)
    /\ view.banner = Some(1)
    /\ view.shown[1] = messages[2]

\* C7: full case of the history display: with at most 6 messages, or with
\* more and the toggle on, every entry is rendered in order and there is
\* no banner.
C7_Full ==
    (pc = "idle" /\ (Len(messages) <= 6 \/ show_all(session_state)))
        => /\ view.shown = messages
           /\ view.banner = NoValue

C7_Witness ==
    /\ pc = "idle"
    /\ Len(messages) = 7
    /\ show_all(session_state)
    /\ view.shown = messages

\* C8: staging sets selected_question to the clicked question, leaves
\* messages unchanged and calls no endpoint; a staged question only reaches
\* the controller through "Use this question".
C8_StageFrame ==
    /\ [][ (pc = "idle" /\ pass'.click = "main_question")
              => /\ Staged'
                 /\ selected_question' = pass'.arg
                 /\ messages' = messages
                 /\ pc' = "run"
                 /\ call' = NoCall
                 /\ hist'.calls = hist.calls ]_vars
    /\ [](pass.source = "staged" => pass.click = "use_question")

C8_Witness ==
    /\ pass.click = "main_question"
    /\ pc = "run"
    /\ Len(messages) > 0
    /\ selected_question = get_suggested_questions[2]

\* C9: "Use this question" with a question staged hands exactly the staged
\* text to the controller and leaves nothing staged; with nothing staged no
\* pass yields a prompt from the stager.
C9_Confirm ==
    [][ pc = "idle"
          => IF pass'.click = "use_question" /\ Staged
             THEN /\ pass'.prompt = Some(selected_question)
                  /\ pass'.source = "staged"
                  /\ ~Staged'
                  /\ Last(messages') =
                        [role |-> "user", content |-> selected_question]
             ELSE pass'.source # "staged" /\ pass'.op # "confirm" ]_vars

C9_Witness ==
    /\ pass.click = "use_question"
    /\ pc = "calling"
    /\ ~Staged
    /\ pass.prompt = Some(get_suggested_questions[2])

\* C10 (as stated): after staging a question and discarding it, the session
\* is what it was before the staging.
C10_DiscardRestores ==
    (pass.click = "clear_question" /\ pc = "run" /\ hist.pre_stage # NoValue)
        => session_state = hist.pre_stage[1]

\* C10 (amended): discarding leaves nothing staged, leaves messages
\* unchanged, yields no prompt and calls no endpoint; staging and then
\* discarding restores the session that held before the staging provided
\* nothing was staged then.
C10_Discard ==
    /\ [][ (pc = "idle" /\ pass'.click = "clear_question" /\ Staged)
              => /\ ~Staged'
                 /\ messages' = messages
                 /\ pass'.prompt = NoValue
                 /\ pc' = "run"
                 /\ call' = NoCall
                 /\ hist'.calls = hist.calls ]_vars
    /\ []( ( /\ pass.click = "clear_question"
             /\ pc = "run"
             /\ hist.pre_stage # NoValue
             /\ "selected_question" \notin hist.pre_stage[1].keys )
           => session_state = hist.pre_stage[1] )

C10_Witness ==
    /\ pass.click = "clear_question"
    /\ pc = "run"
    /\ hist.pre_stage # NoValue
    /\ "selected_question" \notin hist.pre_stage[1].keys
    /\ Len(messages) > 0

\* C11: free text is accepted only when no question is staged: a pass that
\* starts with a question staged hands no typed prompt to the controller
\* (its only possible prompt is the staged question, through "Use this
\* question"), and while a question is staged the chat input is not on the
\* page.
C11_StagedBlocksFreeText ==
    /\ [][ (pc \in { "idle", "run" } /\ Staged)
              => /\ pass'.source # "typed"
                 /\ pass'.prompt # NoValue
                       => /\ pass'.click = "use_question"
                          /\ pass'.prompt = Some(selected_question) ]_vars
    /\ []((pc = "idle" /\ Staged) => "chat_input" \notin widgets)

C11_Witness ==
    /\ pc = "idle"
    /\ Staged
    /\ pass.click = "none"
    /\ pass.prompt = NoValue
    /\ "chat_input" \notin widgets
    /\ "use_question" \in widgets
    /\ Len(messages) >= 2

\* C12: a pass consumes at most one new user input: it appends at most one
\* user entry and calls the endpoint at most once, and the prompt it
\* processes is either the confirmed staged question or the typed text,
\* never both.
C12_OneInputPerPass ==
    /\ [][ /\ CountRole(messages', "user") <= CountRole(messages, "user") + 1
           /\ pc = "calling"
                 => /\ pc' # "calling"
                    /\ CountRole(messages', "user") = CountRole(messages, "user")
           /\ pc' = "calling"
                 => /\ pc \in { "idle", "run" }
                    /\ messages' =
                          Append(messages,
                                 [role |-> "user", content |-> pass'.prompt[1]])
                    /\ \/ /\ pass'.source = "staged"
                          /\ pass'.click = "use_question"
                          /\ pass'.prompt = Some(selected_question)
                       \/ /\ pass'.source = "typed"
                          /\ pass'.click = "chat_input"
                          /\ pass'.prompt = Some(pass'.arg)
                          /\ ~Staged
           /\ (pc # "calling" /\ pc' # "calling") => messages' = messages
                                                     \/ messages' = << >> ]_vars

C12_Witness ==
    /\ pc = "calling"
    /\ pass.source = "typed"
    /\ pass.click = "chat_input"
    /\ Len(messages) >= 4
    /\ CountRole(messages, "user") = 3

\* C13: one remote attempt per prompt: the endpoint is only called by a pass
\* in which the user has just submitted a non-empty prompt ("Use this
\* question" or the chat input), never by a pass started by st.rerun() and
\* never again by the pass whose call failed; after a failed call the pass
\* ends with the log as it is.
C13_NoAutomaticRetry ==
    [][ /\ pc' = "calling"
              => /\ pc = "idle"
                 /\ pass'.click \in { "use_question", "chat_input" }
                 /\ Truthy(pass'.prompt)
                 /\ hist'.calls = hist.calls + 1
        /\ pc = "calling"
              => /\ pc' \in { "idle", "run" }
                 /\ hist'.calls = hist.calls
                 /\ pass'.outcome = "failure"
                       => pc' = "idle" /\ messages' = messages
        /\ pc = "run" => hist'.calls = hist.calls /\ call' = NoCall ]_vars

C13_Witness ==
    /\ pc = "idle"
    /\ hist.last_call = "failure"
    /\ pass.click = "none"
    /\ call = NoCall
    /\ hist.calls = 2
    /\ Last(messages).role = "user"

\* C14: response normalization: a bare string s is recorded as s, a
\* structured object with a content field c as c, a structured object
\* without a content field as the empty string; in each case exactly one
\* assistant entry is appended to the log that was sent.
C14_Normalization ==
    (pc = "run" /\ pass.outcome = "success")
        => LET response == pass.response[1]
               text == CASE response.kind = "str" -> response.content
                         [] response.kind = "dict" /\ response.has_content
                               -> response.content
                         [] response.kind = "dict" /\ ~response.has_content
                               -> ""
           IN  /\ response.kind \in { "str", "dict" }
               /\ messages =
                     Append(call.messages,
                            [role |-> "assistant", content |-> text])

C14_Witness ==
    /\ pc = "run"
    /\ pass.outcome = "success"
    /\ pass.response[1].kind = "dict"
    /\ ~pass.response[1].has_content
    /\ Last(messages) = [role |-> "assistant", content |-> ""]

\* C15: after a failed remote call the session remains usable: the pass has
\* ended, nothing is staged, the suggested questions are on the page (and
\* the chat input too when the failed prompt was typed), the next pass that
\* runs to its end shows the chat input, and a prompt sent afterwards whose
\* call succeeds appends one user entry and then one assistant entry.
C15_UsableAfterFailure ==
    /\ []( pass.outcome = "failure"
             => /\ pc = "idle"
                /\ ~Staged
                /\ "main_question" \in widgets
                /\ pass.source = "typed" => "chat_input" \in widgets )
    /\ [][ /\ (pc = "idle" /\ pass.outcome = "failure" /\ pc' = "idle")
                 => "chat_input" \in widgets'
           /\ (pc = "idle" /\ hist.failures > 0 /\ pc' = "calling")
                 => messages' =
                       Append(messages,
                              [role |-> "user", content |-> pass'.prompt[1]])
           /\ (pc = "calling" /\ hist.failures > 0 /\ pass'.outcome = "success")
                 => /\ Len(messages') = Len(messages) + 1
                    /\ IsPrefix(messages, messages')
                    /\ Last(messages').role = "assistant" ]_vars

C15_Witness ==
    /\ pc = "run"
    /\ pass.outcome = "success"
    /\ hist.failures = 1
    /\ Len(messages) >= 3
    /\ messages[Len(messages) - 2].role = "user"
    /\ messages[Len(messages) - 1].role = "user"
    /\ Last(messages).role = "assistant"

\* After a failed call for a confirmed staged question the pass has rendered
\* "Use this question" but not the chat input.
C15_StaleStagerAfterFailure ==
    /\ pc = "idle"
    /\ pass.outcome = "failure"
    /\ pass.source = "staged"
    /\ "use_question" \in widgets
    /\ "chat_input" \notin widgets

\* C16: when SERVING_ENDPOINT is missing the application halts before
\* serving anything: no session state is created or changed, no widget is
\* rendered, no prompt is processed and no endpoint call is made.
C16_MissingEndpointHalts ==
    SERVING_ENDPOINT = ""
        => /\ pc \in { "run", "stopped" }
           /\ session_state = EmptySession
           /\ widgets = {}
           /\ pass.prompt = NoValue
           /\ call = NoCall
           /\ hist = ZeroHist
           /\ user_email = ""
           /\ pc = "stopped" => view = StoppedView /\ pass.end = "stop"

C16_Witness ==
    /\ SERVING_ENDPOINT = ""
    /\ pc = "stopped"
    /\ view.error
    /\ session_state.keys = {}

\* C17: the identity lookup never fails the pass: with the email header
\* present, absent, or the lookup raising, user_email is the header value
\* or the sentinel "Not available", and the pass goes on to initialise the
\* session and to render.
C17_IdentityLookup ==
    (SERVING_ENDPOINT # "" /\ pass.end # "none")
        => /\ user_email = IF headers = "present" THEN "user@example.com"
                           ELSE "Not available"
           /\ "messages" \in session_state.keys
           /\ pc # "stopped"
           /\ pc = "idle" => { "main_question", "reset" } \subseteq widgets

C17_Witness ==
    /\ headers = "raises"
    /\ pc = "idle"
    /\ user_email = "Not available"
    /\ "messages" \in session_state.keys
    /\ Len(messages) > 0

\* C18: the user entry is appended before the remote call, and the payload
\* of every call is the whole current log in order, ending with the user
\* entry of the prompt just submitted, with a budget of 400 tokens.
C18_Payload ==
    /\ []( pc = "calling"
             => /\ call.messages = messages
                /\ Last(call.messages) =
                      [role |-> "user", content |-> pass.prompt[1]]
                /\ call.max_tokens = 400
                /\ call.endpoint_name = SERVING_ENDPOINT )
    /\ [][ (pc # "calling" /\ pc' = "calling")
              => /\ IsPrefix(messages, call'.messages)
                 /\ Len(call'.messages) = Len(messages) + 1 ]_vars

C18_Witness ==
    /\ pc = "calling"
    /\ Len(call.messages) = 5
    /\ call.messages[4].role = "assistant"
    /\ pass.source = "staged"
    /\ call.max_tokens = 400

\* C19: whenever the windowed view is shown (more than 6 messages, toggle
\* off) the 6 rendered entries are three user/assistant pairs: their roles
\* are user, assistant, user, assistant, user, assistant.
C19_WindowIsThreePairs ==
    (pc = "idle" /\ Len(messages) > 6 /\ ~show_all(session_state))
        => /\ Len(view.shown) = 6
           /\ \A i \in 1 .. 6 :
                 view.shown[i].role = IF i % 2 = 1 THEN "user" ELSE "assistant"

\* C20: the history toggle is offered only by passes in which messages has
\* more than 6 entries ("Show All History" with the toggle off, "Show
\* Recent Only" with it on); a click on it flips show_all_messages, leaves
\* messages and the staged question unchanged and starts a new pass.
C20_Toggle ==
    /\ []( pc = "idle"
             => /\ "expand_messages" \in widgets
                      <=> (Len(messages) > 6 /\ ~show_all(session_state))
                /\ "collapse_messages" \in widgets
                      <=> (Len(messages) > 6 /\ show_all(session_state)) )
    /\ [][ (pc = "idle"
              /\ pass'.click \in { "expand_messages", "collapse_messages" })
              => /\ Len(messages) > 6
                 /\ show_all(session_state') = ~show_all(session_state)
                 /\ show_all(session_state') = (pass'.click = "expand_messages")
                 /\ messages' = messages
                 /\ Staged' = Staged
                 /\ selected_question' = selected_question
                 /\ pc' = "run" ]_vars

C20_Witness ==
    /\ pass.click = "collapse_messages"
    /\ pc = "run"
    /\ ~show_all(session_state)
    /\ Staged
    /\ Len(messages) = 7

\* C21: the view is derived from the up-to-date log: the pass that renders
\* the history after a prompt was handled (the pass started by st.rerun()
\* after a successful call, or the pass of the failed call itself) renders
\* a suffix of the current messages whose last entry is the newest entry
\* of messages: the new assistant reply, or the unanswered user question.
C21_ViewIsCurrent ==
    /\ [][ (pc = "run" /\ pass.outcome = "success")
              => /\ pc' = "idle"
                 /\ messages' = messages
                 /\ IsSuffix(view'.shown, messages')
                 /\ Len(view'.shown) >= 2
                 /\ Last(view'.shown) = Last(messages')
                 /\ Last(view'.shown).role = "assistant"
                 /\ view'.shown[Len(view'.shown) - 1] =
                       [role |-> "user", content |-> pass.prompt[1]] ]_vars
    /\ []( (pc = "idle" /\ pass.outcome = "failure")
             => /\ IsSuffix(view.shown, messages)
                /\ Len(view.shown) >= 1
                /\ Last(view.shown) = Last(messages)
                /\ Last(view.shown) =
                      [role |-> "user", content |-> pass.prompt[1]]
                /\ view.error )

C21_Witness ==
    /\ pc = "idle"
    /\ pass.outcome = "failure"
    /\ Len(messages) = 5
    /\ view.error
    /\ Len(view.shown) = 5
    /\ Last(view.shown) = Last(messages)
    /\ Last(view.shown).role = "user"

\* C22 (as stated): a pass with no resolved prompt (no staged question
\* confirmed and no free text submitted, or an empty prompt) leaves messages
\* unchanged and makes no remote endpoint call.
C22_NoPromptKeepsMessages ==
    [][ (pc \in { "idle", "run" } /\ ~Truthy(pass'.prompt))
            => /\ messages' = messages
               /\ pc' # "calling" ]_vars

\* C22 (amended): a pass with no resolved prompt makes no remote endpoint
\* call and leaves messages unchanged, unless it is the pass of the Reset
\* button, which empties messages; when such a pass runs to its end it
\* renders the history of the unchanged log, without an error.
C22_NoPromptNoCall ==
    [][ (pc \in { "idle", "run" } /\ ~Truthy(pass'.prompt))
            => /\ pc' # "calling"
               /\ call' = NoCall
               /\ messages' = IF pc = "idle" /\ pass'.click = "reset"
                              THEN << >> ELSE messages
               /\ pc' = "idle"
                     => /\ IsSuffix(view'.shown, messages)
                        /\ (Len(messages) > 0) => (Len(view'.shown) > 0)
                        /\ ~view'.error ]_vars

C22_Witness ==
    /\ pc = "idle"
    /\ pass.click = "chat_input"
    /\ pass.prompt = Some("")
    /\ call = NoCall
    /\ Len(messages) >= 2
    /\ Len(view.shown) >= 2

\* C23: session state persists across passes: the initialisation at the
\* start of a pass creates messages as the empty list only when the key is
\* absent and leaves an existing messages, show-all toggle and staged
\* question as they are, so a pass started by st.rerun() or a page load
\* changes none of them.
C23_InitPreserves ==
    /\ []( LET s == initialize_session_state(session_state) IN
             /\ "messages" \in s.keys
             /\ s.messages = IF "messages" \in session_keys
                             THEN messages ELSE << >>
             /\ show_all(s) = show_all(session_state)
             /\ ("show_all_messages" \in s.keys)
                   = ("show_all_messages" \in session_keys)
             /\ ("selected_question" \in s.keys) = Staged
             /\ s.selected_question = selected_question
             /\ "messages" \in session_keys => s = session_state )
    /\ [][ (pc = "run" /\ SERVING_ENDPOINT # "")
              => /\ "messages" \in session_keys'
                 /\ messages' = IF "messages" \in session_keys
                                THEN messages ELSE << >>
                 /\ show_all(session_state') = show_all(session_state)
                 /\ Staged' = Staged
                 /\ selected_question' = selected_question
                 /\ "messages" \in session_keys
                       => session_state' = session_state ]_vars

C23_Witness ==
    /\ pc = "idle"
    /\ pass.click = "none"
    /\ Len(messages) = 7
    /\ show_all(session_state)
    /\ Staged
    /\ selected_question = get_suggested_questions[1]

\* Entry i of the log is a user entry that got no reply: the next entry is
\* another user entry, or it is the last entry and no call is pending.
Unanswered(i) ==
    /\ i \in DOMAIN messages
    /\ messages[i].role = "user"
    /\ IF i < Len(messages) THEN messages[i + 1].role = "user"
       ELSE pc # "calling"

\* C24: a failed call leaves the user entry of its prompt as the last entry
\* of the log; an unanswered user entry is never removed or answered later:
\* in every step other than the Reset pass it keeps its place and content,
\* the entry after it (if any) is a user entry, the next prompt is appended
\* directly after it, and the payload of every later call contains it.
C24_UnansweredStays ==
    [][ /\ (pc = "calling" /\ pass'.outcome = "failure")
              => /\ messages' = messages
                 /\ Len(messages') > 0
                 /\ Last(messages') =
                       [role |-> "user", content |-> pass.prompt[1]]
        /\ \A i \in DOMAIN messages :
              Unanswered(i)
                 => \/ (pc = "idle" /\ pass'.click = "reset"
                           /\ messages' = << >>)
                    \/ /\ Len(messages') >= i
                       /\ messages'[i] = messages[i]
                       /\ Len(messages') > i
                             => messages'[i + 1].role = "user"
                       /\ (pc' = "calling" /\ i = Len(messages))
                             => /\ Len(messages') = i + 1
                                /\ messages'[i + 1] =
                                      [role |-> "user",
                                       content |-> pass'.prompt[1]]
                       /\ pc' = "calling"
                             => /\ Len(call'.messages) > i
                                /\ call'.messages[i] = messages[i] ]_vars

C24_Witness ==
    /\ pc = "calling"
    /\ Len(call.messages) >= 4
    /\ \E i \in 1 .. Len(call.messages) - 2 :
          /\ Unanswered(i)
          /\ call.messages[i].role = "user"
          /\ call.messages[i + 1].role = "user"
          /\ call.messages[i + 2].role = "assistant"

\* C25: show_all_messages is changed only by the collapse / expand button:
\* every other step (a submitted prompt, a successful or failed call, a
\* staging, a confirmation, a discard, a reset, a rerun pass) leaves the key
\* and its value as they are; so a value of true is still in force whenever
\* a later pass renders more than 6 messages.
C25_OnlyToggleChangesShowAll ==
    /\ [][ \/ /\ session_state'.show_all_messages = show_all_messages
              /\ ("show_all_messages" \in session_keys')
                    = ("show_all_messages" \in session_keys)
              /\ show_all(session_state') = show_all(session_state)
           \/ /\ pc = "idle"
              /\ pass'.click \in { "expand_messages", "collapse_messages" }
              /\ pass'.click \in widgets ]_vars
    /\ []( (pc = "idle" /\ show_all(session_state) /\ Len(messages) > 6)
             => /\ view.shown = messages
                /\ "collapse_messages" \in widgets )

C25_Witness ==
    /\ pc = "idle"
    /\ show_all(session_state)
    /\ pass.outcome = "failure"
    /\ pass.source = "staged"
    /\ Len(messages) = 1

\* C26: Reset leaves the staged question alone: a question staged when the
\* Reset button is clicked is still staged after the Reset pass, and the
\* pass started by its st.rerun() shows the confirmation buttons and not
\* the chat input, and yields no prompt.
C26_ResetKeepsStaged ==
    [][ /\ (pc = "idle" /\ pass'.click = "reset")
              => /\ Staged' = Staged
                 /\ selected_question' = selected_question
                 /\ pc' = "run"
        /\ (pc = "run" /\ pass.click = "reset" /\ Staged)
              => /\ pc' = "idle"
                 /\ Staged'
                 /\ selected_question' = selected_question
                 /\ messages' = << >>
                 /\ pass'.prompt = NoValue
                 /\ "chat_input" \notin widgets'
                 /\ { "use_question", "clear_question" } \subseteq widgets' ]_vars

C26_Witness ==
    /\ pc = "run"
    /\ pass.click = "reset"
    /\ Staged
    /\ selected_question = get_suggested_questions[2]
    /\ messages = << >>
    /\ show_all(session_state)

\* C27: at most one question is staged and the last click wins: the staged
\* question is always the suggested question clicked last; a click on a
\* suggested question while another one is staged replaces it; and "Use
\* this question" appends one user entry, carrying the question clicked
\* last, and leaves nothing staged.
C27_LastClickWins ==
    /\ []( /\ Staged <=> selected_question # ""
           /\ Staged <=> hist.last_staged # ""
           /\ Staged => /\ selected_question \in Questions
                        /\ selected_question = hist.last_staged )
    /\ [][ /\ (pc = "idle" /\ pass'.click = "main_question")
                 => /\ Staged'
                    /\ selected_question' = pass'.arg
                    /\ messages' = messages
           /\ (pc = "idle" /\ pass'.click = "use_question" /\ Staged)
                 => /\ messages' =
                          Append(messages,
                                 [role |-> "user", content |-> hist.last_staged])
                    /\ pass'.prompt = Some(hist.last_staged)
                    /\ ~Staged'
                    /\ selected_question' = "" ]_vars

C27_Witness ==
    /\ pc = "run"
    /\ pass.click = "main_question"
    /\ hist.pre_stage # NoValue
    /\ "selected_question" \in hist.pre_stage[1].keys
    /\ hist.pre_stage[1].selected_question = get_suggested_questions[2]
    /\ selected_question = get_suggested_questions[1]
    /\ hist.last_staged = get_suggested_questions[1]

\* The user submits a non-empty prompt in the step: "Use this question"
\* with a question staged, or non-empty text through the chat input.
SubmitsPrompt ==
    /\ pc = "idle"
    /\ \/ pass'.click = "use_question" /\ Staged /\ selected_question # ""
       \/ pass'.click = "chat_input" /\ ~Staged /\ pass'.arg # ""

\* C28: counting invariant.  hist.prompts counts the non-empty prompts
\* submitted since the last reset, hist.successes the calls that returned a
\* string or a dict, hist.failures the calls that raised or returned
\* neither; in every reachable state the user entries of messages number
\* hist.prompts, the assistant entries hist.successes, len(messages) =
\* prompts + successes, and the unanswered user entries number
\* hist.failures.
C28_Counting ==
    /\ [][ /\ (pc = "idle" /\ pass'.click = "reset")
                 => /\ hist'.prompts = 0
                    /\ hist'.successes = 0
                    /\ hist'.failures = 0
           /\ ~(pc = "idle" /\ pass'.click = "reset")
                 => /\ hist'.prompts =
                          hist.prompts + (IF SubmitsPrompt THEN 1 ELSE 0)
                    /\ hist'.successes =
                          hist.successes +
                          (IF pc = "calling"
                              /\ pass'.response[1].kind \in { "str", "dict" }
                           THEN 1 ELSE 0)
                    /\ hist'.failures =
                          hist.failures +
                          (IF pc = "calling"
                              /\ pass'.response[1].kind \in { "raise", "none" }
                           THEN 1 ELSE 0) ]_vars
    /\ []( /\ CountRole(messages, "user") = hist.prompts
           /\ CountRole(messages, "assistant") = hist.successes
           /\ Len(messages) = hist.prompts + hist.successes
           /\ Cardinality({ i \in DOMAIN messages : Unanswered(i) })
                 = hist.failures
           /\ hist.prompts = hist.successes + hist.failures
                               + (IF pc = "calling" THEN 1 ELSE 0) )

C28_Witness ==
    /\ pc = "idle"
    /\ show_all(session_state)
    /\ Len(messages) = 3
    /\ hist.prompts = 2
    /\ hist.successes = 1
    /\ hist.failures = 1

\* C29: no rerun loop.  A pass started by st.rerun() (after a staging, a
\* discard, a toggle, a reset or a successful turn) or by the page load has
\* no input: it yields no prompt, appends nothing, calls no endpoint and
\* ends without another st.rerun(); a user interaction is followed by at
\* most the endpoint call and one such pass; and, the call returning or
\* raising, the session always comes to rest again (waiting for the user,
\* or stopped).
C29_NoRerunLoop ==
    /\ [][ /\ pc = "run"
                 => /\ pc' \in { "idle", "stopped" }
                    /\ pass'.click = "none"
                    /\ pass'.prompt = NoValue
                    /\ pass'.end \in { "done", "stop" }
                    /\ Len(messages') = Len(messages)
                    /\ call' = NoCall
                    /\ hist'.calls = hist.calls
           /\ pc = "calling" => pc' \in { "run", "idle" }
           /\ pc = "idle" => pc' \in { "run", "calling", "idle" }
           /\ pc = "stopped" => pc' = "stopped" ]_vars
    /\ []<>(pc \in { "idle", "stopped" })

C29_Witness ==
    /\ pc = "idle"
    /\ pass.click = "none"
    /\ pass.end = "done"
    /\ hist.last_call = "success"
    /\ Last(messages).role = "assistant"
    /\ Len(messages) = 7
    /\ Staged
====
